---- MODULE Spec2Model ----
(***************************************************************************)
(* Symmetric-delete spelling correction (src/src/main.rs).                 *)
(*                                                                         *)
(* A string is a sequence of Unicode scalar values (code points).  Its     *)
(* String::len() is the length of its UTF-8 encoding in bytes, its         *)
(* chars() are the elements of the sequence.  The program is the state     *)
(* machine of main(): open the words file, collect the normalised lines,   *)
(* build dictionary_subsequences one (distance, word) iteration at a time, *)
(* then serve queries from stdin forever.                                  *)
(***************************************************************************)
EXTENDS Integers, Sequences, FiniteSets, TLC

\* const MAX_EDIT_DISTANCE: usize = 2;
MAX_EDIT_DISTANCE == 2

\* Bounds of the model.
MaxFileChars == 4    \* characters of all the words collected from the words file
MaxQueryLen == 3     \* characters in one line typed at the prompt

\* Characters the words file is written in: ' ', 'A' and U+00E9 (two bytes in UTF-8).
DictChars == {32, 65, 233}
\* Characters a query is typed in: 'A', U+00E9 and U+00FC (two bytes each).
QueryChars == {65, 233, 252}

Strings(chars, n) == UNION {[1..k -> chars] : k \in 0..n}
FileLines == Strings(DictChars, MaxFileChars)
QueryLines == Strings(QueryChars, MaxQueryLen)

Range(f) == {f[x] : x \in DOMAIN f}
max(a, b) == IF a >= b THEN a ELSE b

RECURSIVE TotalLen(_)
TotalLen(ws) == IF ws = <<>> THEN 0 ELSE Len(Head(ws)) + TotalLen(Tail(ws))

----------------------------------------------------------------------------
(* Strings: UTF-8 length, byte order, trim, to_lowercase. *)

\* The UTF-8 encoding of one char.
encode_utf8(c) ==
    IF c < 128 THEN <<c>>
    ELSE IF c < 2048 THEN <<192 + (c \div 64), 128 + (c % 64)>>
    ELSE IF c < 65536 THEN <<224 + (c \div 4096), 128 + ((c \div 64) % 64), 128 + (c % 64)>>
    ELSE <<240 + (c \div 262144), 128 + ((c \div 4096) % 64),
           128 + ((c \div 64) % 64), 128 + (c % 64)>>

RECURSIVE as_bytes(_)
as_bytes(s) == IF s = <<>> THEN <<>> ELSE encode_utf8(Head(s)) \o as_bytes(Tail(s))

\* String::len(): the number of bytes, as used on lines 53, 84, 105 and 153.
len(s) == Len(as_bytes(s))

\* Ord for byte strings: lexicographic; a proper prefix is smaller.
RECURSIVE cmp_bytes(_, _)
cmp_bytes(a, b) ==
    IF a = <<>> THEN (IF b = <<>> THEN "Equal" ELSE "Less")
    ELSE IF b = <<>> THEN "Greater"
    ELSE IF Head(a) < Head(b) THEN "Less"
    ELSE IF Head(a) > Head(b) THEN "Greater"
    ELSE cmp_bytes(Tail(a), Tail(b))

\* a.cmp(b) on Strings compares their bytes.
cmp(a, b) == cmp_bytes(as_bytes(a), as_bytes(b))

\* char::is_whitespace (the White_Space property).
is_whitespace(c) ==
    c \in (9..13) \cup {32, 133, 160, 5760} \cup (8192..8202) \cup {8232, 8233, 8239, 8287, 12288}

RECURSIVE trim_start(_)
trim_start(s) == IF s # <<>> /\ is_whitespace(Head(s)) THEN trim_start(Tail(s)) ELSE s

RECURSIVE trim_end(_)
trim_end(s) ==
    IF s # <<>> /\ is_whitespace(s[Len(s)]) THEN trim_end(SubSeq(s, 1, Len(s) - 1)) ELSE s

\* str::trim
trim(s) == trim_end(trim_start(s))

\* char::to_lowercase on Basic Latin and Latin-1 (one char to one char there).
char_to_lowercase(c) ==
    IF c \in 65..90 THEN c + 32
    ELSE IF c \in (192..222) \ {215} THEN c + 32
    ELSE c

\* str::to_lowercase
to_lowercase(s) == [k \in 1..Len(s) |-> char_to_lowercase(s[k])]

\* |line| line.trim().to_lowercase()   (lines 28 and 78)
normalize(line) == to_lowercase(trim(line))

----------------------------------------------------------------------------
(* subsequences_from_n_deletions *)

PrependAll(x, seqs) == [k \in 1..Len(seqs) |-> <<x>> \o seqs[k]]

\* itertools: the n-element combinations of lo..hi-1, in lexicographic order.
RECURSIVE combinations_from(_, _, _)
combinations_from(lo, hi, n) ==
    IF n = 0 THEN << <<>> >>
    ELSE IF hi - lo < n THEN <<>>
    ELSE PrependAll(lo, combinations_from(lo + 1, hi, n - 1))
            \o combinations_from(lo + 1, hi, n)

\* (0..m).combinations(n)
combinations(m, n) == combinations_from(0, m, n)

\* s.chars().enumerate().filter(|(i, _)| !indices.contains(i)).map(|(_, c)| c).collect()
\* from the char with 0-based index i - 1 on.
RECURSIVE new_word_from(_, _, _)
new_word_from(s, indices, i) ==
    IF i > Len(s) THEN <<>>
    ELSE (IF (i - 1) \in Range(indices) THEN <<>> ELSE <<s[i]>>)
            \o new_word_from(s, indices, i + 1)

new_word(s, indices) == new_word_from(s, indices, 1)

\* The range the deletion indices are drawn from: 0..s.len() (line 153).
index_bound(s) == len(s)

\* fn subsequences_from_n_deletions(s: &str, n: usize) -> Vec<String>
subsequences_from_n_deletions(s, n) ==
    IF n = 0 THEN <<s>>
    ELSE LET combs == combinations(index_bound(s), n)
         IN  [k \in 1..Len(combs) |-> new_word(s, combs[k])]

----------------------------------------------------------------------------
(* The state of main(). *)

VARIABLES
    pc,                        \* the statement main() is about to run
    error,                     \* the context of the error main() returned, "" if none
    source_unavailable,        \* File::open or the line reader has returned an error
    collected,                 \* the Vec that collect() has gathered so far
    words,                     \* let words (line 26)
    dictionary_subsequences,   \* subsequence -> (distance -> Vec of words)
    distance,                  \* the outer build loop's variable
    i,                         \* the inner build loop's index (0-based)
    input_word,                \* let input_word (line 78)
    results,                   \* distance -> HashSet of words, of the current query
    printed                    \* what was last written to stdout

vars == <<pc, error, source_unavailable, collected, words, dictionary_subsequences,
          distance, i, input_word, results, printed>>

\* const UPDATE_INTERVAL: usize = 10000;
UPDATE_INTERVAL == 10000

\* HashMap::new()
new_map == <<>>

\* One thing written to stdout: what it is, the number and the strings in it.
Output(kind, number, text) == [kind |-> kind, number |-> number, text |-> text]

nothing_printed == Output("nothing", 0, <<>>)

Init ==
    /\ pc = "open"
    /\ error = ""
    /\ source_unavailable = FALSE
    /\ collected = <<>>
    /\ words = <<>>
    /\ dictionary_subsequences = new_map
    /\ distance = 0
    /\ i = 0
    /\ input_word = <<>>
    /\ results = new_map
    /\ printed = nothing_printed

\* return Err(..) from main(): the process ends.
Fail(context) ==
    /\ pc' = "failed"
    /\ error' = context

----------------------------------------------------------------------------
(* Lines 19-31: open the words file and collect its lines. *)

\* File::open(WORDS_FILE) succeeds.
OpenWordsFile ==
    /\ pc = "open"
    /\ pc' = "collect"
    /\ UNCHANGED <<error, source_unavailable, collected, words, dictionary_subsequences,
                   distance, i, input_word, results, printed>>

\* File::open(WORDS_FILE) fails: .context("could not open words file")?
OpenWordsFileFails ==
    /\ pc = "open"
    /\ Fail("could not open words file")
    /\ source_unavailable' = TRUE
    /\ UNCHANGED <<collected, words, dictionary_subsequences, distance, i, input_word,
                   results, printed>>

\* An io::Result<String>: Ok(line) or Err(_).
Ok(line) == [ok |-> TRUE, line |-> line]
Err == [ok |-> FALSE, line |-> <<>>]
LineResults == {Ok(line) : line \in FileLines} \cup {Err}

\* .map(|line_result| line_result.map(|line| line.trim().to_lowercase()))
map_line(line_result) ==
    IF line_result.ok THEN Ok(normalize(line_result.line)) ELSE line_result

\* The filter written with map_or(false, ..): a line that failed to read is dropped
\* like an empty one, and collect() never sees the error.
keep_line_drops_errors(line_result) ==
    IF line_result.ok THEN line_result.line # <<>> ELSE FALSE

\* .filter(|line_result| line_result.as_ref().map_or(true, |line| !line.is_empty()))
keep_line(line_result) ==
    IF line_result.ok THEN line_result.line # <<>> ELSE TRUE

\* collect::<Result<Vec<_>, _>>() pulls one more item from words_reader.lines().
CollectLine ==
    /\ pc = "collect"
    /\ \E line_result \in LineResults :
          LET mapped == map_line(line_result) IN
          /\ source_unavailable' = (source_unavailable \/ ~line_result.ok)
          /\ IF ~keep_line(mapped)
                THEN UNCHANGED <<pc, error, collected>>
             ELSE IF ~mapped.ok
                THEN /\ Fail("could not read from file")
                     /\ UNCHANGED collected
             ELSE /\ TotalLen(collected) + Len(mapped.line) <= MaxFileChars
                  /\ collected' = Append(collected, mapped.line)
                  /\ UNCHANGED <<pc, error>>
    /\ UNCHANGED <<words, dictionary_subsequences, distance, i, input_word, results,
                   printed>>

\* lines() is exhausted: collect() returns Ok(vec), which becomes words.
CollectDone ==
    /\ pc = "collect"
    /\ words' = collected
    /\ distance' = 0
    /\ pc' = "distance_loop"
    /\ UNCHANGED <<error, source_unavailable, collected, dictionary_subsequences, i,
                   input_word, results, printed>>

----------------------------------------------------------------------------
(* Lines 45-69: build dictionary_subsequences. *)

\* The guard of line 53 off by one: it also skips the word that has one byte more
\* than the distance.
skip_word_off_by_one(word, d) == len(word) - d <= 1

\* if word.len() as i32 - distance as i32 <= 0 { continue; }   (line 53)
skip_word(word, d) == len(word) - d <= 0

\* How often x occurs in the sequence v.
Occurrences(v, x) == Cardinality({k \in DOMAIN v : v[k] = x})

\* insert(distance, vec![word]) in place of entry(distance)..push(word): the Vec keeps
\* the last word only.
push_overwrites(spellings, word, times) == IF times = 0 THEN spellings ELSE <<word>>

\* .push(word.clone()), as often as the loop reaches this Vec (line 63).
push(spellings, word, times) == spellings \o [k \in 1..times |-> word]

\* What the inner loop generates for each of the words ws at distance d, from the k-th
\* word on: nothing for a word it skips (lines 53-57).
RECURSIVE generated_from(_, _, _)
generated_from(ws, d, k) ==
    IF k > Len(ws) THEN <<>>
    ELSE <<IF skip_word(ws[k], d) THEN <<>> ELSE subsequences_from_n_deletions(ws[k], d)>>
            \o generated_from(ws, d, k + 1)

\* The Vec of the subsequence s after the pushes of the words ws, from the k-th on.
RECURSIVE push_each(_, _, _, _, _)
push_each(spellings, ws, generated, s, k) ==
    IF k > Len(ws) THEN spellings
    ELSE push_each(push(spellings, ws[k], Occurrences(generated[k], s)),
                   ws, generated, s, k + 1)

\* The inner loop (lines 47-65) over the words ws, in their order, at distance d:
\* for subsequence in subsequences_from_n_deletions(word, distance) {
\*     dictionary_subsequences.entry(subsequence).or_insert_with(..)
\*         .entry(distance).or_insert_with(..).push(word) }
\* Every push is to the Vec at the distance d of a generated subsequence, which so
\* grows by each word, in the order of the words, once for each time the word
\* generates the subsequence.
index_words(index, ws, d) ==
    LET generated == generated_from(ws, d, 1)
        touched == UNION {Range(generated[k]) : k \in DOMAIN generated}
        by_distance(s) == IF s \in DOMAIN index THEN index[s] ELSE new_map
        spellings(s) == IF d \in DOMAIN by_distance(s) THEN by_distance(s)[d] ELSE <<>>
    IN  [s \in touched |->
            (d :> push_each(spellings(s), ws, generated, s, 1)) @@ by_distance(s)]
        @@ index

\* One iteration of the inner loop (lines 52-64).
index_word(index, word, d) == index_words(index, <<word>>, d)

\* The range of line 45 written 0..MAX_EDIT_DISTANCE: the last distance is left out.
distances_exhausted_early(d) == d >= MAX_EDIT_DISTANCE

\* 0..=MAX_EDIT_DISTANCE has no element d left (line 45).
distances_exhausted(d) == d > MAX_EDIT_DISTANCE

\* for distance in 0..=MAX_EDIT_DISTANCE: the next iteration starts (line 46).
NextDistance ==
    /\ pc = "distance_loop"
    /\ ~distances_exhausted(distance)
    /\ printed' = Output("calculating", distance, <<>>)
    /\ i' = 0
    /\ pc' = "word_loop"
    /\ UNCHANGED <<error, source_unavailable, collected, words, dictionary_subsequences,
                   distance, input_word, results>>

\* for (i, word) in words.iter().enumerate(): one iteration (lines 48-64).
ProcessWord ==
    /\ pc = "word_loop"
    /\ i < Len(words)
    /\ LET word == words[i + 1] IN
          /\ printed' = IF i % UPDATE_INTERVAL = 0
                           THEN Output("processing", i, <<word>>) ELSE printed
          /\ dictionary_subsequences' = index_word(dictionary_subsequences, word, distance)
    /\ i' = i + 1
    /\ UNCHANGED <<pc, error, source_unavailable, collected, words, distance, input_word,
                   results>>

\* words.iter() is exhausted: on to the next distance.
WordsDone ==
    /\ pc = "word_loop"
    /\ i = Len(words)
    /\ distance' = distance + 1
    /\ pc' = "distance_loop"
    /\ UNCHANGED <<error, source_unavailable, collected, words, dictionary_subsequences,
                   i, input_word, results, printed>>

\* 0..=MAX_EDIT_DISTANCE is exhausted (lines 68-69).
FinishProcessing ==
    /\ pc = "distance_loop"
    /\ distances_exhausted(distance)
    /\ printed' = Output("finished", 0, <<>>)
    /\ pc' = "prompt"
    /\ UNCHANGED <<error, source_unavailable, collected, words, dictionary_subsequences,
                   distance, i, input_word, results>>

----------------------------------------------------------------------------
(* Lines 71-117: the query loop. *)

\* print!("\n> Enter a word ..."); io::stdout().flush() succeeds;
\* let mut input_word = String::new();   (lines 72-74)
Prompt ==
    /\ pc = "prompt"
    /\ printed' = Output("prompt", 0, <<>>)
    /\ input_word' = <<>>
    /\ pc' = "read_line"
    /\ UNCHANGED <<error, source_unavailable, collected, words, dictionary_subsequences,
                   distance, i, results>>

\* io::stdout().flush() fails: .context("could not flush stdout")?   (line 73, where
\* no input_word exists)
FlushFails ==
    /\ pc = "prompt"
    /\ printed' = Output("prompt", 0, <<>>)
    /\ input_word' = <<>>
    /\ Fail("could not flush stdout")
    /\ UNCHANGED <<source_unavailable, collected, words, dictionary_subsequences,
                   distance, i, results>>

\* read_line appends the line and its newline to the buffer.
read_line(typed) == typed \o <<10>>

\* let mut results = HashMap::new();   (line 81)
new_results == new_map

\* if input_word.len() as i32 - dist_input_to_subseq as i32 <= 0 { continue; }  (line 84)
skip_input(word, d) == len(word) - d <= 0

\* for input_subsequence in subsequences { check_for_correct_spellings(..) }
\* (lines 90-99), each call doing (lines 130-143)
\*     if let Some(found) = dictionary_subsequences.get(input_subsequence) {
\*         for (dist_subseq_to_correction, correct_spellings) in found {
\*             results.entry(dist_input_to_subseq.max(*dist_subseq_to_correction))
\*                 .or_insert_with(..).extend(correct_spellings) } }
\* Each call only adds words to the sets of res, so the calls in a row leave at each
\* key the union of what each of them adds there.
check_all(res, index, subsequences, dist_input_to_subseq) ==
    LET found == {s \in Range(subsequences) : s \in DOMAIN index}
        hits == UNION {{<<s, d>> : d \in DOMAIN index[s]} : s \in found}
        key(hit) == max(dist_input_to_subseq, hit[2])
    IN  [k \in {key(hit) : hit \in hits} |->
            (IF k \in DOMAIN res THEN res[k] ELSE {})
            \cup UNION {Range(index[hit[1]][hit[2]]) : hit \in {h \in hits : key(h) = k}}]
        @@ res

\* fn check_for_correct_spellings(results, dictionary_subsequences, input_subsequence,
\*                                dist_input_to_subseq)
check_for_correct_spellings(res, index, input_subsequence, dist_input_to_subseq) ==
    check_all(res, index, <<input_subsequence>>, dist_input_to_subseq)

\* for dist_input_to_subseq in d..=MAX_EDIT_DISTANCE { .. }   (lines 82-100)
RECURSIVE resolve_from(_, _, _, _)
resolve_from(res, index, word, d) ==
    IF d > MAX_EDIT_DISTANCE THEN res
    ELSE IF skip_input(word, d) THEN resolve_from(res, index, word, d + 1)
    ELSE resolve_from(
            check_all(res, index, subsequences_from_n_deletions(word, d), d),
            index, word, d + 1)

\* The subsequences of the input that are looked up in the map, at distance d and on.
RECURSIVE looked_up_from(_, _)
looked_up_from(word, d) ==
    IF d > MAX_EDIT_DISTANCE THEN {}
    ELSE (IF skip_input(word, d) THEN {} ELSE Range(subsequences_from_n_deletions(word, d)))
            \cup looked_up_from(word, d + 1)

\* read_line succeeds and the line is resolved: the input is normalised (lines 75-78),
\* results is created (line 81) and filled by the loop over dist_input_to_subseq
\* (lines 82-100).
ResolveInput ==
    /\ pc = "read_line"
    /\ \E typed \in QueryLines :
          /\ input_word' = normalize(read_line(typed))
          /\ results' = resolve_from(new_results, dictionary_subsequences, input_word', 0)
    /\ pc' = "report"
    /\ UNCHANGED <<error, source_unavailable, collected, words, dictionary_subsequences,
                   distance, i, printed>>

\* read_line fails: .context("could not read from stdin")?
ReadInputFails ==
    /\ pc = "read_line"
    /\ Fail("could not read from stdin")
    /\ UNCHANGED <<source_unavailable, collected, words, dictionary_subsequences,
                   distance, i, input_word, results, printed>>

\* usize::cmp
cmp_usize(a, b) == IF a < b THEN "Less" ELSE IF a > b THEN "Greater" ELSE "Equal"

\* |a, b| match a.len().cmp(&b.len()) { Ordering::Equal => a.cmp(b), x => x }
compare(a, b) ==
    LET x == cmp_usize(len(a), len(b)) IN IF x = "Equal" THEN cmp(a, b) ELSE x

\* Insert x into a sorted Vec, after every element that is not greater (stable).
RECURSIVE insert_sorted(_, _)
insert_sorted(sorted, x) ==
    IF sorted = <<>> THEN <<x>>
    ELSE IF compare(sorted[Len(sorted)], x) = "Greater"
       THEN Append(insert_sorted(SubSeq(sorted, 1, Len(sorted) - 1), x), sorted[Len(sorted)])
    ELSE Append(sorted, x)

\* correct_spellings.sort_by(..): a stable sort.
RECURSIVE sort_by(_)
sort_by(v) ==
    IF v = <<>> THEN <<>>
    ELSE insert_sorted(sort_by(SubSeq(v, 1, Len(v) - 1)), v[Len(v)])

\* The orders in which a HashSet can be iterated.
iterations(set) ==
    {v \in [1..Cardinality(set) -> set] : \A j, k \in DOMAIN v : j # k => v[j] # v[k]}

\* results.keys().min()
min_key(res) == CHOOSE m \in DOMAIN res : \A k \in DOMAIN res : m <= k

\* if let Some(min_distance) = results.keys().min() { .. }   (lines 101-113);
\* results is dropped where the iteration ends (line 117).
ReportSpellings ==
    /\ pc = "report"
    /\ DOMAIN results # {}
    /\ LET min_distance == min_key(results) IN
          \E correct_spellings \in iterations(results[min_distance]) :
              printed' = Output("found", min_distance, sort_by(correct_spellings))
    /\ pc' = "prompt"
    /\ results' = new_map
    /\ UNCHANGED <<error, source_unavailable, collected, words, dictionary_subsequences,
                   distance, i, input_word>>

\* else { println!("Did not find any corrections for that word"); }   (line 115);
\* results is dropped where the iteration ends (line 117).
ReportNone ==
    /\ pc = "report"
    /\ DOMAIN results = {}
    /\ printed' = Output("none", 0, <<>>)
    /\ pc' = "prompt"
    /\ results' = new_map
    /\ UNCHANGED <<error, source_unavailable, collected, words, dictionary_subsequences,
                   distance, i, input_word>>

Next ==
    \/ OpenWordsFile
    \/ OpenWordsFileFails
    \/ CollectLine
    \/ CollectDone
    \/ NextDistance
    \/ ProcessWord
    \/ WordsDone
    \/ FinishProcessing
    \/ Prompt
    \/ FlushFails
    \/ ResolveInput
    \/ ReadInputFails
    \/ ReportSpellings
    \/ ReportNone

Spec == Init /\ [][Next]_vars

----------------------------------------------------------------------------
(* The build loop and the query loop as functions, and what the claims speak of. *)

\* The build loop (lines 45-66) over the words ws, taking the distances in the given
\* order, from the j-th distance on.
RECURSIVE build_from(_, _, _, _)
build_from(index, ws, order, j) ==
    IF j > Len(order) THEN index
    ELSE build_from(index_words(index, ws, order[j]), ws, order, j + 1)

\* 0..=MAX_EDIT_DISTANCE in ascending order.
ascending == [k \in 1..(MAX_EDIT_DISTANCE + 1) |-> k - 1]

\* The map the build loop leaves for the words ws.
build(ws) == build_from(new_map, ws, ascending, 1)

\* What the query loop prints for the results res, for each iteration order of the set.
answers(res) ==
    IF DOMAIN res = {} THEN {Output("none", 0, <<>>)}
    ELSE {Output("found", min_key(res), sort_by(v)) : v \in iterations(res[min_key(res)])}

\* The results of one query resolved alone against the map index.
resolve(index, word) == resolve_from(new_map, index, word, 0)

Serving == {"prompt", "read_line", "report"}
ServingErrors == {"could not flush stdout", "could not read from stdin"}
SourceErrors == {"could not open words file", "could not read from file"}

\* The program got past the build loop.
Built == pc \in Serving \/ error \in ServingErrors

\* A query has just been answered.
Answered == pc = "prompt" /\ printed.kind \in {"found", "none"}

\* A map with every Vec of words taken as a set.
AsSets(index) ==
    [s \in DOMAIN index |-> [d \in DOMAIN index[s] |-> Range(index[s][d])]]

\* The words stored for the subsequence s at the deletion count d.
Stored(index, s, d) ==
    IF s \in DOMAIN index /\ d \in DOMAIN index[s] THEN Range(index[s][d]) ELSE {}

\* The sequence v in every order.
Reorderings(v) == {[k \in DOMAIN v |-> v[p[k]]] : p \in iterations(DOMAIN v)}

\* s without the characters at the positions P (1-based), from position k on.
RECURSIVE Without(_, _, _)
Without(s, P, k) ==
    IF k > Len(s) THEN <<>>
    ELSE (IF k \in P THEN <<>> ELSE <<s[k]>>) \o Without(s, P, k + 1)

\* The strings obtained from s by deleting exactly d of its characters.
DeleteExactly(s, d) ==
    {Without(s, P, 1) : P \in {Q \in SUBSET (1..Len(s)) : Cardinality(Q) = d}}

\* The deletion counts a string of this length may be reduced by.
Counts(s) == {d \in 0..MAX_EDIT_DISTANCE : d < Len(s)}

\* The combined distances of q and w over the subsequences they share.
SharedDistances(q, w) ==
    {max(dq, dw) : <<dq, dw>> \in
        {c \in Counts(q) \X Counts(w) : DeleteExactly(q, c[1]) \cap DeleteExactly(w, c[2]) # {}}}

Minimum(S) == CHOOSE m \in S : \A k \in S : m <= k

\* CD(q, w), defined when q and w share a subsequence.
CD(q, w) == Minimum(SharedDistances(q, w))

\* The strings the generator has been or may be called on in this state.
Inputs == {input_word} \cup Range(words) \cup Range(collected)

\* Lexicographic order of strings by character.
RECURSIVE LexLess(_, _)
LexLess(a, b) ==
    IF b = <<>> THEN FALSE
    ELSE IF a = <<>> THEN TRUE
    ELSE IF Head(a) # Head(b) THEN Head(a) < Head(b)
    ELSE LexLess(Tail(a), Tail(b))

\* Shorter first, and among equal lengths the lexicographically smaller first.
RankedBefore(a, b) == Len(a) < Len(b) \/ (Len(a) = Len(b) /\ LexLess(a, b))

tub == <<116, 117, 98>>
tube == <<116, 117, 98, 101>>
tubr == <<116, 117, 98, 114>>
cub == <<99, 117, 98>>

----------------------------------------------------------------------------
(* The claims. *)

\* C1: after the build, for every string s and every deletion count d in 0..K, the
\* words stored at Index[s][d] are exactly the dictionary words w with len(w) > d
\* (in characters) from which s is obtained by deleting exactly d characters.
C1_IndexHoldsExactlyTheReducingWords ==
    Built =>
        \A d \in 0..MAX_EDIT_DISTANCE :
            \A s \in DOMAIN dictionary_subsequences
                        \cup UNION {DeleteExactly(w, d) : w \in Range(words)} :
                Stored(dictionary_subsequences, s, d)
                    = {w \in Range(words) : Len(w) > d /\ s \in DeleteExactly(w, d)}

\* C2: the query loop reports m = the minimum over the dictionary words of CD(q, w)
\* with exactly the words w with CD(q, w) = m, and reports no correction exactly when
\* no word shares a subsequence with q; {tub, tube} and "tubr" give 1 and {tub, tube}.
C2_ReportIsTheMinimalCombinedDistance ==
    /\ answers(resolve(build(<<tub, tube>>), tubr)) = {Output("found", 1, <<tub, tube>>)}
    /\ Answered =>
          LET candidates == {w \in Range(words) : SharedDistances(input_word, w) # {}}
              m == Minimum({CD(input_word, w) : w \in candidates})
          IN  IF candidates = {}
                 THEN printed.kind = "none"
                 ELSE /\ printed.kind = "found"
                      /\ printed.number = m
                      /\ Range(printed.text) = {w \in candidates : CD(input_word, w) = m}

\* C3: for every dictionary word w, the query w is answered with distance 0 and a set
\* of words that contains w.
C3_Reflexivity ==
    /\ \A w \in Range(words) : normalize(read_line(w)) = w
    /\ (Answered /\ input_word \in Range(words)) =>
          /\ printed.kind = "found"
          /\ printed.number = 0
          /\ input_word \in Range(printed.text)

C3_Witness ==
    /\ Answered
    /\ input_word \in Range(words)
    /\ Len(input_word) > 1
    /\ printed.number = 0
    /\ input_word \in Range(printed.text)

\* C4: for every word or query s and every n with 0 <= n < len(s), every element of
\* subsequences_from_n_deletions(s, n) has len(s) - n characters, and for n = 0 the
\* result is s alone.
C4_GeneratedLengths ==
    \A s \in Inputs :
        /\ s # <<>> => subsequences_from_n_deletions(s, 0) = <<s>>
        /\ \A n \in 0..(Len(s) - 1) :
              \A e \in Range(subsequences_from_n_deletions(s, n)) : Len(e) = Len(s) - n

\* C5: the build over any permutation of the words, taking the deletion counts in any
\* order, yields the same mapping subsequence -> count -> set of words as the build
\* the program has run.
C5_BuildOrderDoesNotMatter ==
    printed.kind = "finished" =>
        \A ws \in Reorderings(words) :
            \A order \in Reorderings(ascending) :
                AsSets(build_from(new_map, ws, order, 1)) = AsSets(dictionary_subsequences)

C5_Witness ==
    /\ printed.kind = "finished"
    /\ Len(words) >= 2
    /\ words[1] # words[2]
    /\ \E s \in DOMAIN dictionary_subsequences :
          /\ Cardinality(DOMAIN dictionary_subsequences[s]) >= 2
          /\ \E d \in DOMAIN dictionary_subsequences[s] :
                Cardinality(Range(dictionary_subsequences[s][d])) >= 2

\* C6: whenever a query is about to be read the Index is the one the complete build
\* left and no results of an earlier query exist, every query's answer is that of the
\* query resolved alone against the Index, and nothing of a query exists before the
\* build is complete.
C6_QueriesAreIndependent ==
    /\ (input_word # <<>> \/ results # new_map
            \/ printed.kind \in {"prompt", "found", "none"}) => Built
    /\ (Built /\ pc # "report" /\ ~Answered) => dictionary_subsequences = build(words)
    /\ pc \in {"prompt", "read_line"} => results = new_map
    /\ Answered => printed \in answers(resolve(dictionary_subsequences, input_word))

C6_Witness ==
    /\ Answered
    /\ printed.kind = "found"
    /\ printed.number = MAX_EDIT_DISTANCE
    /\ Len(words) >= 2

\* C7: when the words file cannot be opened or one of its lines cannot be read, the
\* program has stopped with that error, the Index is empty and no query was read or
\* answered.
C7_SourceUnavailableIsFatal ==
    source_unavailable =>
        /\ pc = "failed"
        /\ error \in SourceErrors
        /\ words = <<>>
        /\ dictionary_subsequences = new_map
        /\ input_word = <<>>
        /\ results = new_map
        /\ printed = nothing_printed

C7_Witness ==
    /\ source_unavailable
    /\ error = "could not read from file"
    /\ Len(collected) >= 2

\* C8: what is printed for a query is the winning set, each word once, in ascending
\* length (in characters) and, among equal lengths, ascending lexicographic order;
\* {tub, tube, cub} is printed as cub, tub, tube.
C8_PrintedInRankOrder ==
    /\ \A v \in iterations({tub, tube, cub}) : sort_by(v) = <<cub, tub, tube>>
    /\ (Answered /\ printed.kind = "found") =>
          LET res == resolve(dictionary_subsequences, input_word)
              text == printed.text
          IN  /\ Range(text) = res[min_key(res)]
              /\ \A j, k \in DOMAIN text : j < k => RankedBefore(text[j], text[k])

\* C9: for every s and every n with 0 < n < len(s) the generator returns each distinct
\* string once, and no list Index[subsequence][d] holds a word more often than the
\* dictionary does.
C9_GeneratorHasNoDuplicates ==
    /\ \A s \in Inputs :
          \A n \in 1..(Len(s) - 1) :
              LET subsequences == subsequences_from_n_deletions(s, n)
              IN  \A j, k \in DOMAIN subsequences :
                      j # k => subsequences[j] # subsequences[k]
    /\ \A s \in DOMAIN dictionary_subsequences :
          \A d \in DOMAIN dictionary_subsequences[s] :
              \A w \in Range(dictionary_subsequences[s][d]) :
                  Occurrences(dictionary_subsequences[s][d], w) <= Occurrences(words, w)

\* C10: neither loop calls the generator with a deletion count n >= len(s) in
\* characters: no word is stored at a count d >= len(w), the empty string is no key
\* of the Index and is never looked up for a query.
C10_NoDegenerateDeletion ==
    /\ (pc = "word_loop" /\ i < Len(words) /\ ~skip_word(words[i + 1], distance))
          => distance < Len(words[i + 1])
    /\ \A d \in 0..MAX_EDIT_DISTANCE : ~skip_input(input_word, d) => d < Len(input_word)
    /\ \A s \in DOMAIN dictionary_subsequences :
          \A d \in DOMAIN dictionary_subsequences[s] :
              \A w \in Range(dictionary_subsequences[s][d]) : d < Len(w)
    /\ <<>> \notin DOMAIN dictionary_subsequences
    /\ <<>> \notin looked_up_from(input_word, 0)

====
